---- MODULE Spec2Model ----
(***************************************************************************)
(* speedtest-tracker-webhook: the webhook handler (webhookHandler) and the *)
(* process lifecycle (main, run) of src/main.go as a state machine.        *)
(*                                                                         *)
(* Data representation                                                     *)
(*  - an error value is a set of error tags; nil is {} and errors.Join is  *)
(*    set union;                                                           *)
(*  - a float64 is a decimal pair [m, e] standing for (m/10) * 10^e;       *)
(*  - a request body is what json's scanner makes of its bytes: either a   *)
(*    syntax error, or the JSON value the bytes spell;                     *)
(*  - every histogram recording and span is kept per request (the request  *)
(*    id is a ghost tag, the instruments themselves are process-wide).     *)
(***************************************************************************)
EXTENDS Integers, Sequences, FiniteSets, TLC

(***************************************************************************)
(* Bounds                                                                  *)
(***************************************************************************)
NumReq == 2
MaxMembers == 2

(***************************************************************************)
(* Program constants                                                       *)
(***************************************************************************)
StatusOK == 200
StatusBadRequest == 400
StatusMethodNotAllowed == 405
StatusInternalServerError == 500
MaxFloat64Exp == 308

Reqs == 1..NumReq

(***************************************************************************)
(* JSON values.  kind is the JSON type.  A number literal keeps the shape  *)
(* of its text: integer part i, fraction digit f (-1: no fraction),        *)
(* exponent e (-1: no exponent).                                           *)
(***************************************************************************)
JNull == [kind |-> "null", i |-> 0, f |-> -1, e |-> -1, s |-> "", members |-> <<>>]
JBool == [JNull EXCEPT !.kind = "bool"]
JArray == [JNull EXCEPT !.kind = "array"]
JStr(str) == [JNull EXCEPT !.kind = "string", !.s = str]
JNum(ip, fd, ex) == [JNull EXCEPT !.kind = "number", !.i = ip, !.f = fd, !.e = ex]
JInt(n) == JNum(n, -1, -1)
JObj(ms) == [JNull EXCEPT !.kind = "object", !.members = ms]

\* A body that is not JSON text (including the empty body).
BadSyntax == [valid |-> FALSE, json |-> JNull]
Body(v) == [valid |-> TRUE, json |-> v]

(***************************************************************************)
(* WebhookPayload                                                          *)
(***************************************************************************)
F0 == [m |-> 0, e |-> 0]

ZeroPayload ==
    [ResultID |-> 0, SiteName |-> "", Service |-> "", ServerName |-> "",
     ServerID |-> 0, ISP |-> "", Ping |-> F0, Download |-> F0, Upload |-> F0,
     PacketLoss |-> F0, SpeedtestURL |-> "", URL |-> ""]

IntFields == {"ResultID", "ServerID"}
FloatFields == {"Ping", "Download", "Upload", "PacketLoss"}
StringFields == {"SiteName", "Service", "ServerName", "ISP", "SpeedtestURL", "URL"}
Fields == IntFields \cup FloatFields \cup StringFields

\* The json tag of each field.
JsonTag(fld) ==
    CASE fld = "ResultID" -> "result_id"
      [] fld = "SiteName" -> "site_name"
      [] fld = "Service" -> "service"
      [] fld = "ServerName" -> "serverName"
      [] fld = "ServerID" -> "serverId"
      [] fld = "ISP" -> "isp"
      [] fld = "Ping" -> "ping"
      [] fld = "Download" -> "download"
      [] fld = "Upload" -> "upload"
      [] fld = "PacketLoss" -> "packetLoss"
      [] fld = "SpeedtestURL" -> "speedtest_url"
      [] fld = "URL" -> "url"

\* Case folding of the object keys the model uses (json matches a key to a
\* field tag exactly, else case-insensitively).
Fold(key) ==
    CASE key = "serverId" -> "serverid"
      [] key = "SERVERID" -> "serverid"
      [] key = "serverName" -> "servername"
      [] key = "packetLoss" -> "packetloss"
      [] key = "Ping" -> "ping"
      [] key = "ISP" -> "isp"
      [] OTHER -> key

\* The struct field an object key decodes into, "" when there is none
\* (unknown keys are skipped).
FieldOf(key) ==
    IF \E fld \in Fields : Fold(JsonTag(fld)) = Fold(key)
    THEN CHOOSE fld \in Fields : Fold(JsonTag(fld)) = Fold(key)
    ELSE ""

\* strconv.ParseInt on a number literal: digits only.
ParseIntOK(v) == v.f = -1 /\ v.e = -1

\* strconv.ParseFloat on a number literal: fails on a value out of range
\* (the literals of the model have a one-digit integer part when they have
\* an exponent).
ParseFloatOK(v) == v.e <= MaxFloat64Exp

FloatOf(v) ==
    [m |-> IF v.i < 0 THEN v.i * 10 - (IF v.f < 0 THEN 0 ELSE v.f)
                      ELSE v.i * 10 + (IF v.f < 0 THEN 0 ELSE v.f),
     e |-> IF v.e < 0 THEN 0 ELSE v.e]

\* A decoder that takes a JSON string for any scalar field.
FitsLenient(fld, v) ==
    \/ v.kind \in {"null", "string"}
    \/ fld \in FloatFields /\ v.kind = "number" /\ v.e <= MaxFloat64Exp
    \/ fld \in IntFields /\ v.kind = "number" /\ v.f = -1 /\ v.e = -1

\* Does JSON value v fit struct field fld (null fits everything and leaves
\* the field alone).
Fits(fld, v) ==
    \/ v.kind = "null"
    \/ fld \in StringFields /\ v.kind = "string"
    \/ fld \in FloatFields /\ v.kind = "number" /\ ParseFloatOK(v)
    \/ fld \in IntFields /\ v.kind = "number" /\ ParseIntOK(v)

\* The value stored into field fld from a fitting JSON value v.
Store(p, fld, v) ==
    CASE v.kind = "null" -> p
      [] fld \in StringFields -> [p EXCEPT ![fld] = v.s]
      [] fld \in FloatFields -> [p EXCEPT ![fld] = FloatOf(v)]
      [] fld \in IntFields -> [p EXCEPT ![fld] = v.i]

\* Decoding the members of an object in order into res = [payload, err]:
\* a member that does not fit its field saves an UnmarshalTypeError and
\* decoding goes on with the next member.
RECURSIVE DecodeMembers(_, _)
DecodeMembers(ms, res) ==
    IF ms = <<>> THEN res
    ELSE LET key == Head(ms)[1]
             v == Head(ms)[2]
             fld == FieldOf(key)
             next == IF fld = "" THEN res
                     ELSE IF Fits(fld, v)
                          THEN [res EXCEPT !.payload = Store(@, fld, v)]
                          ELSE [res EXCEPT !.err = @ \cup {"UnmarshalTypeError"}]
         IN DecodeMembers(Tail(ms), next)

\* A decoder without the syntax check and the top-level type check.
UnmarshalIgnoringSyntax(body) ==
    IF body.json.kind = "object"
    THEN DecodeMembers(body.json.members, [payload |-> ZeroPayload, err |-> {}])
    ELSE [payload |-> ZeroPayload, err |-> {}]

\* json.Unmarshal(body, &payload) with payload the zero WebhookPayload.
Unmarshal(body) ==
    IF ~body.valid THEN [payload |-> ZeroPayload, err |-> {"SyntaxError"}]
    ELSE IF body.json.kind = "null" THEN [payload |-> ZeroPayload, err |-> {}]
    ELSE IF body.json.kind = "object"
         THEN DecodeMembers(body.json.members, [payload |-> ZeroPayload, err |-> {}])
         ELSE [payload |-> ZeroPayload, err |-> {"UnmarshalTypeError"}]

(***************************************************************************)
(* strconv.Itoa: the decimal text of an integer.                           *)
(***************************************************************************)
Digit(d) == CASE d = 0 -> "0" [] d = 1 -> "1" [] d = 2 -> "2" [] d = 3 -> "3"
              [] d = 4 -> "4" [] d = 5 -> "5" [] d = 6 -> "6" [] d = 7 -> "7"
              [] d = 8 -> "8" [] d = 9 -> "9"

RECURSIVE FormatUint(_)
FormatUint(n) == IF n < 10 THEN Digit(n) ELSE FormatUint(n \div 10) \o Digit(n % 10)

\* A formatter that drops the sign.
ItoaUnsigned(n) == FormatUint(IF n < 0 THEN -n ELSE n)

Itoa(n) == IF n < 0 THEN "-" \o FormatUint(-n) ELSE FormatUint(n)


(***************************************************************************)
(* Inputs                                                                  *)
(***************************************************************************)
Methods == {"POST", "GET"}

\* The README's example payload and a second one.
Example ==
    Body(JObj(<< <<"result_id", JInt(123)>>, <<"serverId", JInt(456)>>,
                 <<"serverName", JStr("Test Server")>>, <<"isp", JStr("Example ISP")>>,
                 <<"ping", JNum(25, 5, -1)>>, <<"download", JInt(100000000)>>,
                 <<"upload", JInt(50000000)>> >>))

Other ==
    Body(JObj(<< <<"result_id", JInt(7)>>, <<"serverId", JInt(-5)>>,
                 <<"site_name", JStr("Home")>>, <<"ping", JInt(9)>>,
                 <<"packetLoss", JNum(0, 5, -1)>> >>))

\* Bodies of the requests of the full specification.
Bodies == {BadSyntax, Example, Other}

\* Bodies of the decoding specification: every JSON text of at most
\* MaxMembers members built from these keys and values, and no JSON.
Keys == {"ping", "Ping", "serverId", "isp", "comment"}
Values ==
    {JNull, JBool, JArray, JObj(<<>>), JStr("x"), JInt(456), JNum(25, 5, -1),
     JNum(1, -1, 999)}
Objects == UNION {[1..n -> Keys \X Values] : n \in 0..MaxMembers}
RichBodies == {BadSyntax} \cup {Body(v) : v \in Values} \cup {Body(JObj(ms)) : ms \in Objects}

\* A request: its method, and what reading its body gives: an I/O error
\* (readOK false) or the body.
NoRequest == [method |-> "", readOK |-> FALSE, body |-> BadSyntax]

\* STW_SERVER_PORT
PortNumbers == {80, 1214}
PortValues == {"", "abc", "1214"}

Signals == {"SIGINT", "SIGTERM"}

InstrumentNames == {"speedtest.ping", "speedtest.download", "speedtest.upload"}

NoSpan == [started |-> 0, ended |-> 0, errors |-> <<>>, events |-> <<>>]

VARIABLES
    pc,            \* run(): the statement the main goroutine is at
    err,           \* run(): the local variable err
    ret,           \* run(): the value of its return statement
    exit,          \* the process: "running", "exit0", "exit1", "killed"
    otel,          \* the telemetry provider: setup and shutdown calls, results
    instruments,   \* the histograms created so far
    portRaw,       \* run(): the local variable portRaw
    startup,       \* the startup steps completed, in order
    sig,           \* signal handling: stop channel, registrations, ctx
    srv,           \* the http.Server: inShutdown, listener, Shutdown's result
    lpc,           \* the goroutine of line 153: the statement it is at
    req,           \* per request: the request
    hpc,           \* per request: the statement webhookHandler is at
    payload,       \* per request: the local variable payload
    status,        \* per request: the status codes written
    span,          \* per request: the handleWebhookRequest span
    pingHistogram, downloadHistogram, uploadHistogram
                   \* per request: the values recorded, with their attributes

lifecycle == <<pc, err, ret, exit, otel, instruments, portRaw, startup, sig, srv, lpc>>
handlers == <<req, hpc, payload, status, span, pingHistogram, downloadHistogram,
              uploadHistogram>>
vars == <<lifecycle, handlers>>

InitHandlers ==
    /\ req = [r \in Reqs |-> NoRequest]
    /\ hpc = [r \in Reqs |-> "none"]
    /\ payload = [r \in Reqs |-> ZeroPayload]
    /\ status = [r \in Reqs |-> <<>>]
    /\ span = [r \in Reqs |-> NoSpan]
    /\ pingHistogram = [r \in Reqs |-> <<>>]
    /\ downloadHistogram = [r \in Reqs |-> <<>>]
    /\ uploadHistogram = [r \in Reqs |-> <<>>]

Init ==
    /\ pc = "setupOTelSDK"
    /\ err = {}
    /\ ret = {}
    /\ exit = "running"
    /\ otel = [setups |-> 0, setupErr |-> {}, shutdowns |-> 0, shutdownErr |-> {}]
    /\ instruments = {}
    /\ portRaw = ""
    /\ startup = <<>>
    /\ sig = [stop |-> <<>>, notify |-> FALSE, ctxNotify |-> TRUE, ctx |-> "active"]
    /\ srv = [inShutdown |-> FALSE, listener |-> "none", result |-> {}]
    /\ lpc = "none"
    /\ InitHandlers


(***************************************************************************)
(* webhookHandler, one request r at a time through its statements.         *)
(* A handler runs only while the process does.                             *)
(***************************************************************************)
Running == exit = "running"

InFlight(r) == hpc[r] \notin {"none", "done"}

\* A response written without its status: the default 200 goes out.
RespondDefaultStatus(r, code) == status' = [status EXCEPT ![r] = Append(@, StatusOK)]

\* http.Error(w, msg, code) and w.WriteHeader(code): the status written.
Respond(r, code) == status' = [status EXCEPT ![r] = Append(@, code)]

\* span.RecordError(err)
RecordError(r, e) == span' = [span EXCEPT ![r].errors = Append(@, e)]

\* A handler that takes every method.
AnyMethodAllowed(m) == TRUE

\* r.Method != http.MethodPost (negated)
MethodAllowed(m) == m = "POST"

\* Serve's accept loop: the listener accepts a connection and starts its
\* goroutine.
Accept(r) ==
    /\ Running
    /\ lpc = "accept"
    /\ srv.listener = "open"
    /\ hpc[r] = "none"
    /\ \A o \in Reqs : o < r => hpc[o] # "none"
    /\ hpc' = [hpc EXCEPT ![r] = "conn"]
    /\ UNCHANGED <<lifecycle, req, payload, status, span, pingHistogram,
                   downloadHistogram, uploadHistogram>>

\* The connection's goroutine reads the request and hands it to the mux,
\* which dispatches it to webhookHandler (lines 140-147).  Nothing on this
\* path looks at whether the server is shutting down.
Dispatch(r, m) ==
    /\ Running
    /\ hpc[r] = "conn"
    /\ req' = [req EXCEPT ![r].method = m]
    /\ hpc' = [hpc EXCEPT ![r] = "method"]
    /\ UNCHANGED <<lifecycle, payload, status, span, pingHistogram,
                   downloadHistogram, uploadHistogram>>

\* lines 177-180
MethodCheck(r) ==
    /\ Running
    /\ hpc[r] = "method"
    /\ IF MethodAllowed(req[r].method)
       THEN /\ hpc' = [hpc EXCEPT ![r] = "tracerStart"]
            /\ UNCHANGED status
       ELSE /\ Respond(r, StatusMethodNotAllowed)
            /\ hpc' = [hpc EXCEPT ![r] = "done"]
    /\ UNCHANGED <<lifecycle, req, payload, span, pingHistogram, downloadHistogram,
                   uploadHistogram>>

\* lines 182-183
TracerStart(r) ==
    /\ Running
    /\ hpc[r] = "tracerStart"
    /\ span' = [span EXCEPT ![r].started = @ + 1]
    /\ hpc' = [hpc EXCEPT ![r] = "readAll"]
    /\ UNCHANGED <<lifecycle, req, payload, status, pingHistogram, downloadHistogram,
                   uploadHistogram>>

\* The status of a failed body read, were it reported as the client's fault.
ReadFailureStatusMutant == StatusBadRequest

\* line 188
ReadFailureStatus == StatusInternalServerError

\* What io.ReadAll(r.Body) can give when the bodies sent are those of B: an
\* I/O error, or the body.
ReadResults(B) ==
    {[readOK |-> FALSE, body |-> BadSyntax]} \cup {[readOK |-> TRUE, body |-> b] : b \in B}

\* lines 185-190
ReadAll(r, B) ==
    /\ Running
    /\ hpc[r] = "readAll"
    /\ \E res \in ReadResults(B) :
          /\ req' = [req EXCEPT ![r].readOK = res.readOK, ![r].body = res.body]
          /\ IF res.readOK
             THEN /\ hpc' = [hpc EXCEPT ![r] = "unmarshal"]
                  /\ UNCHANGED <<span, status>>
             ELSE /\ RecordError(r, "read")
                  /\ Respond(r, ReadFailureStatus)
                  /\ hpc' = [hpc EXCEPT ![r] = "spanEnd"]
    /\ UNCHANGED <<lifecycle, payload, pingHistogram, downloadHistogram,
                   uploadHistogram>>

\* A payload variable of the package, shared by the handlers.
DecodeIntoShared(pl, r, p) == [o \in Reqs |-> p]

\* line 192: payload is a local variable of the handler
DecodeInto(pl, r, p) == [pl EXCEPT ![r] = p]

\* lines 192-197
JsonUnmarshal(r) ==
    /\ Running
    /\ hpc[r] = "unmarshal"
    /\ LET res == Unmarshal(req[r].body)
       IN /\ payload' = DecodeInto(payload, r, res.payload)
          /\ IF res.err # {}
             THEN /\ RecordError(r, "decode")
                  /\ Respond(r, StatusBadRequest)
                  /\ hpc' = [hpc EXCEPT ![r] = "spanEnd"]
             ELSE /\ hpc' = [hpc EXCEPT ![r] = "record"]
                  /\ UNCHANGED <<span, status>>
    /\ UNCHANGED <<lifecycle, req, pingHistogram, downloadHistogram, uploadHistogram>>

\* lines 201-205
MetricOpts(p) ==
    [server_id |-> Itoa(p.ServerID), server_name |-> p.ServerName, isp |-> p.ISP]

Recording(v, p) == [value |-> v, attrs |-> MetricOpts(p)]

\* lines 206-208
RecordMetrics(r) ==
    /\ Running
    /\ hpc[r] = "record"
    /\ pingHistogram' =
          [pingHistogram EXCEPT ![r] = Append(@, Recording(payload[r].Ping, payload[r]))]
    /\ downloadHistogram' =
          [downloadHistogram EXCEPT
              ![r] = Append(@, Recording(payload[r].Download, payload[r]))]
    /\ uploadHistogram' =
          [uploadHistogram EXCEPT
              ![r] = Append(@, Recording(payload[r].Upload, payload[r]))]
    /\ hpc' = [hpc EXCEPT ![r] = "addEvent"]
    /\ UNCHANGED <<lifecycle, req, payload, status, span>>

\* An event whose upload attribute repeats the download value.
ResultEventMutant(p) ==
    [name |-> "speedtest.result", result_id |-> p.ResultID, site_name |-> p.SiteName,
     service |-> p.Service, server_name |-> p.ServerName, server_id |-> p.ServerID,
     isp |-> p.ISP, ping |-> p.Ping, download_bps |-> p.Download,
     upload_bps |-> p.Download, packet_loss |-> p.PacketLoss,
     speedtest_url |-> p.SpeedtestURL]

\* lines 210-222: the event and its attributes
ResultEvent(p) ==
    [name |-> "speedtest.result", result_id |-> p.ResultID, site_name |-> p.SiteName,
     service |-> p.Service, server_name |-> p.ServerName, server_id |-> p.ServerID,
     isp |-> p.ISP, ping |-> p.Ping, download_bps |-> p.Download,
     upload_bps |-> p.Upload, packet_loss |-> p.PacketLoss,
     speedtest_url |-> p.SpeedtestURL]

\* lines 210-222
AddEvent(r) ==
    /\ Running
    /\ hpc[r] = "addEvent"
    /\ span' = [span EXCEPT ![r].events = Append(@, ResultEvent(payload[r]))]
    /\ hpc' = [hpc EXCEPT ![r] = "writeHeader"]
    /\ UNCHANGED <<lifecycle, req, payload, status, pingHistogram, downloadHistogram,
                   uploadHistogram>>

\* lines 224-225
WriteHeader(r) ==
    /\ Running
    /\ hpc[r] = "writeHeader"
    /\ Respond(r, StatusOK)
    /\ hpc' = [hpc EXCEPT ![r] = "spanEnd"]
    /\ UNCHANGED <<lifecycle, req, payload, span, pingHistogram, downloadHistogram,
                   uploadHistogram>>

\* span.End() as the last statement of the handler instead of a deferred
\* call: the early returns skip it.
EndOnSuccessOnly(sp) ==
    IF sp.errors = <<>> THEN [sp EXCEPT !.ended = @ + 1] ELSE sp

\* line 183: the deferred span.End() that runs as the handler returns
DeferredEnd(sp) == [sp EXCEPT !.ended = @ + 1]

\* the handler returns (lines 189, 196, 226), running its deferred call
SpanEnd(r) ==
    /\ Running
    /\ hpc[r] = "spanEnd"
    /\ span' = [span EXCEPT ![r] = DeferredEnd(@)]
    /\ hpc' = [hpc EXCEPT ![r] = "done"]
    /\ UNCHANGED <<lifecycle, req, payload, status, pingHistogram, downloadHistogram,
                   uploadHistogram>>

Handler(r) ==
    \/ MethodCheck(r)
    \/ TracerStart(r)
    \/ JsonUnmarshal(r)
    \/ RecordMetrics(r)
    \/ AddEvent(r)
    \/ WriteHeader(r)
    \/ SpanEnd(r)


(***************************************************************************)
(* run() and main(), statement by statement.                               *)
(***************************************************************************)
Log(step) == startup' = Append(startup, step)

\* strconv.Atoi(portRaw) succeeds on the decimal text of a number.
AtoiOK(str) == str \in {Itoa(n) : n \in PortNumbers}

\* lines 105-108.  setupOTelSDK, defined outside main.go, either fails or
\* builds the providers and returns their shutdown function.
SetupOTelSDK ==
    /\ Running
    /\ pc = "setupOTelSDK"
    /\ \E e \in {{}, {"setup"}} :
          /\ otel' = [otel EXCEPT !.setups = @ + 1, !.setupErr = e]
          /\ err' = e
          /\ IF e = {}
             THEN /\ pc' = "pingHistogram"
                  /\ Log("otel")
                  /\ UNCHANGED ret
             ELSE /\ pc' = "ctxCan"
                  /\ ret' = e
                  /\ UNCHANGED startup
    /\ UNCHANGED <<exit, instruments, portRaw, sig, srv, lpc, handlers>>

\* A failed instrument creation that is logged and survived.
LogErrorf == "running"

\* log.Fatalf (lines 119, 123, 127, 156): the process exits with status 1 at
\* once, no deferred call runs.
LogFatalf == "exit1"

\* lines 114-128: one meter.Float64Histogram call and its error check
CreateHistogram(at, name, next) ==
    /\ Running
    /\ pc = at
    /\ \E e \in {{}, {"instrument"}} :
          /\ err' = e
          /\ IF e = {}
             THEN /\ instruments' = instruments \cup {name}
                  /\ Log(name)
                  /\ pc' = next
                  /\ UNCHANGED exit
             ELSE /\ exit' = LogFatalf
                  /\ pc' = IF LogFatalf = "running" THEN next ELSE pc
                  /\ UNCHANGED <<instruments, startup>>
    /\ UNCHANGED <<ret, otel, portRaw, sig, srv, lpc, handlers>>

PingHistogram == CreateHistogram("pingHistogram", "speedtest.ping", "downloadHistogram")
DownloadHistogram ==
    CreateHistogram("downloadHistogram", "speedtest.download", "uploadHistogram")
UploadHistogram == CreateHistogram("uploadHistogram", "speedtest.upload", "getenv")

\* lines 130-133
Getenv ==
    /\ Running
    /\ pc = "getenv"
    /\ \E v \in PortValues :
          /\ portRaw' = v
          /\ IF v = ""
             THEN /\ ret' = {"missing port"}
                  /\ pc' = "deferOtel"
             ELSE /\ pc' = "atoi"
                  /\ UNCHANGED ret
    /\ UNCHANGED <<err, exit, otel, instruments, startup, sig, srv, lpc, handlers>>

\* lines 135-138
Atoi ==
    /\ Running
    /\ pc = "atoi"
    /\ IF AtoiOK(portRaw)
       THEN /\ err' = {}
            /\ Log("port")
            /\ pc' = "notify"
            /\ UNCHANGED ret
       ELSE /\ err' = {"atoi"}
            /\ ret' = {"invalid port"}
            /\ pc' = "deferOtel"
            /\ UNCHANGED startup
    /\ UNCHANGED <<exit, otel, instruments, portRaw, sig, srv, lpc, handlers>>

\* lines 140-151: the mux and server are built, stop is registered
Notify ==
    /\ Running
    /\ pc = "notify"
    /\ sig' = [sig EXCEPT !.notify = TRUE]
    /\ pc' = "go"
    /\ UNCHANGED <<err, ret, exit, otel, instruments, portRaw, startup, srv, lpc,
                   handlers>>

\* line 153: the goroutine is started
Go ==
    /\ Running
    /\ pc = "go"
    /\ lpc' = "listenAndServe"
    /\ pc' = "waitStop"
    /\ UNCHANGED <<err, ret, exit, otel, instruments, portRaw, startup, sig, srv,
                   handlers>>

\* line 160
WaitStop ==
    /\ Running
    /\ pc = "waitStop"
    /\ sig.stop # <<>>
    /\ sig' = [sig EXCEPT !.stop = Tail(@)]
    /\ pc' = "shutdown"
    /\ UNCHANGED <<err, ret, exit, otel, instruments, portRaw, startup, srv, lpc,
                   handlers>>

\* lines 163-166: server.Shutdown(ctx) marks the server as shutting down and
\* closes its tracked listener (closing may fail)
ShutdownStart ==
    /\ Running
    /\ pc = "shutdown"
    /\ \E e \in (IF srv.listener = "open" THEN {{}, {"close"}} ELSE {{}}) :
          srv' = [srv EXCEPT !.inShutdown = TRUE,
                             !.listener = IF @ = "open" THEN "closed" ELSE @,
                             !.result = e]
    /\ pc' = "shutdownWait"
    /\ UNCHANGED <<err, ret, exit, otel, instruments, portRaw, startup, sig, lpc,
                   handlers>>

\* A shutdown that does not wait for the connections.
NotDrained == TRUE

\* line 166: server.Shutdown returns its listener error once no connection
\* is left that is new or has a request in progress
Drained == \A r \in Reqs : ~InFlight(r)

\* A shutdown context without deadline.
NoDeadline == FALSE

\* line 163: the 5 s of ctx are over while a connection is still in use
DeadlineExceeded == \E r \in Reqs : InFlight(r)

\* A shutdown error that ends the process without the deferred calls.
ExitOnShutdownError(e) == IF e = {} THEN "deferOtel" ELSE "return"

\* lines 166-172: return err and return nil both run the deferred calls,
\* the one of lines 110-112 first (cancel() of line 164 frees a timer)
AfterShutdown(e) == "deferOtel"

\* lines 166-172: server.Shutdown(ctx) returns once Serve has returned and no
\* connection is active, or with ctx's error when the 5 s are over first
\* (the active connections stay open); run() returns that error, or nil
ShutdownReturn ==
    /\ Running
    /\ pc = "shutdownWait"
    /\ lpc # "accept"
    /\ \/ /\ Drained
          /\ UNCHANGED srv
       \/ /\ DeadlineExceeded
          /\ srv' = [srv EXCEPT !.result = {"deadline exceeded"}]
    /\ ret' = srv'.result
    /\ pc' = AfterShutdown(srv'.result)
    /\ UNCHANGED <<err, exit, otel, instruments, portRaw, startup, sig, lpc, handlers>>

\* lines 110-112: the deferred call of otelShutdown; its error is joined into
\* the local variable err (run() has no named result)
DeferOtel ==
    /\ Running
    /\ pc = "deferOtel"
    /\ \E e \in {{}, {"flush"}} :
          /\ otel' = [otel EXCEPT !.shutdowns = @ + 1, !.shutdownErr = e]
          /\ err' = err \cup e
    /\ pc' = "ctxCan"
    /\ UNCHANGED <<ret, exit, instruments, portRaw, startup, sig, srv, lpc, handlers>>

\* line 102: the deferred ctxCan() cancels ctx and unregisters it from SIGINT
CtxCan ==
    /\ Running
    /\ pc = "ctxCan"
    /\ sig' = [sig EXCEPT !.ctx = IF @ = "active" THEN "ctxCan" ELSE @,
                          !.ctxNotify = FALSE]
    /\ pc' = "return"
    /\ UNCHANGED <<err, ret, exit, otel, instruments, portRaw, startup, srv, lpc,
                   handlers>>

\* lines 94-97: run() has returned ret to main
MainReturn ==
    /\ Running
    /\ pc = "return"
    /\ exit' = IF ret # {} THEN "exit1" ELSE "exit0"
    /\ UNCHANGED <<pc, err, ret, otel, instruments, portRaw, startup, sig, srv, lpc,
                   handlers>>

(***************************************************************************)
(* The goroutine of lines 153-158: server.ListenAndServe()                 *)
(***************************************************************************)
\* ListenAndServe returns ErrServerClosed when the server is shutting down
ListenAndServe ==
    /\ Running
    /\ lpc = "listenAndServe"
    /\ lpc' = IF srv.inShutdown THEN "returned" ELSE "netListen"
    /\ UNCHANGED <<pc, err, ret, exit, otel, instruments, portRaw, startup, sig, srv,
                   handlers>>

\* net.Listen binds the port, or fails (port in use): line 156
NetListen ==
    /\ Running
    /\ lpc = "netListen"
    /\ \E ok \in BOOLEAN :
          IF ok
          THEN /\ srv' = [srv EXCEPT !.listener = "bound"]
               /\ Log("listen")
               /\ lpc' = "serve"
               /\ UNCHANGED exit
          ELSE /\ exit' = LogFatalf
               /\ UNCHANGED <<srv, startup, lpc>>
    /\ UNCHANGED <<pc, err, ret, otel, instruments, portRaw, sig, handlers>>

\* A Serve that does not look at whether the server is shutting down.
ServeUnchecked ==
    /\ Running
    /\ lpc = "serve"
    /\ srv' = [srv EXCEPT !.listener = "open"]
    /\ lpc' = "accept"
    /\ UNCHANGED <<pc, err, ret, exit, otel, instruments, portRaw, startup, sig,
                   handlers>>

\* Serve registers the listener unless the server is shutting down
Serve ==
    /\ Running
    /\ lpc = "serve"
    /\ IF srv.inShutdown
       THEN /\ srv' = [srv EXCEPT !.listener = "closed"]
            /\ lpc' = "returned"
       ELSE /\ srv' = [srv EXCEPT !.listener = "open"]
            /\ lpc' = "accept"
    /\ UNCHANGED <<pc, err, ret, exit, otel, instruments, portRaw, startup, sig,
                   handlers>>

\* Accept fails on the closed listener: Serve returns ErrServerClosed
ServeReturn ==
    /\ Running
    /\ lpc = "accept"
    /\ srv.listener = "closed"
    /\ lpc' = "returned"
    /\ UNCHANGED <<pc, err, ret, exit, otel, instruments, portRaw, startup, sig, srv,
                   handlers>>

\* A context registered for both termination signals.
CtxSignalsBoth == {"SIGINT", "SIGTERM"}

\* line 101: signal.NotifyContext(context.Background(), os.Interrupt)
CtxSignals == {"SIGINT"}

(***************************************************************************)
(* A signal is delivered to the process.  ctx (line 101) is registered for *)
(* SIGINT from the start until ctxCan(), stop (line 151) for SIGINT and    *)
(* SIGTERM; a send to stop is dropped when its buffer of one is full; a    *)
(* signal nobody is registered for terminates the process.  Any number of *)
(* signals may arrive.                                                     *)
(***************************************************************************)
Signal(s) ==
    /\ Running
    /\ LET toCtx == s \in CtxSignals /\ sig.ctxNotify
       IN /\ sig' = [sig EXCEPT
                       !.ctx = IF toCtx /\ @ = "active" THEN "signal" ELSE @,
                       !.stop = IF sig.notify /\ @ = <<>> THEN <<s>> ELSE @]
          /\ exit' = IF sig.notify \/ toCtx THEN exit ELSE "killed"
    /\ UNCHANGED <<pc, err, ret, otel, instruments, portRaw, startup, srv, lpc,
                   handlers>>

Next ==
    \/ SetupOTelSDK
    \/ PingHistogram
    \/ DownloadHistogram
    \/ UploadHistogram
    \/ Getenv
    \/ Atoi
    \/ Notify
    \/ Go
    \/ WaitStop
    \/ ShutdownStart
    \/ ShutdownReturn
    \/ DeferOtel
    \/ CtxCan
    \/ MainReturn
    \/ ListenAndServe
    \/ NetListen
    \/ Serve
    \/ ServeReturn
    \/ \E s \in Signals : Signal(s)
    \/ \E r \in Reqs : Accept(r)
    \/ \E r \in Reqs, m \in Methods : Dispatch(r, m)
    \/ \E r \in Reqs : ReadAll(r, Bodies)
    \/ \E r \in Reqs : Handler(r)

Spec == Init /\ [][Next]_vars

\* The steps of run() from <-stop on, and those of the goroutine of line 153.
MainSteps ==
    WaitStop \/ ShutdownStart \/ ShutdownReturn \/ DeferOtel \/ CtxCan \/ MainReturn
ListenSteps == ListenAndServe \/ NetListen \/ Serve \/ ServeReturn

\* The scheduler runs the main goroutine and the listen goroutine whenever
\* they can take a step, the shutdown timer fires, and otelShutdown returns.
\* Nothing is assumed of the handlers: a request may hang forever.
FairSpec == Spec /\ WF_vars(MainSteps) /\ WF_vars(ListenSteps)


(***************************************************************************)
(* The decoding specification: the server is up (startup has succeeded, no *)
(* signal yet) and handles one request, whose body ranges over RichBodies. *)
(***************************************************************************)
InitServing ==
    /\ pc = "waitStop"
    /\ err = {}
    /\ ret = {}
    /\ exit = "running"
    /\ otel = [setups |-> 1, setupErr |-> {}, shutdowns |-> 0, shutdownErr |-> {}]
    /\ instruments = InstrumentNames
    /\ portRaw = "1214"
    /\ startup = <<"otel", "speedtest.ping", "speedtest.download", "speedtest.upload",
                   "port", "listen">>
    /\ sig = [stop |-> <<>>, notify |-> TRUE, ctxNotify |-> TRUE, ctx |-> "active"]
    /\ srv = [inShutdown |-> FALSE, listener |-> "open", result |-> {}]
    /\ lpc = "accept"
    /\ InitHandlers

NextDecode ==
    \/ Accept(1)
    \/ \E m \in Methods : Dispatch(1, m)
    \/ ReadAll(1, RichBodies)
    \/ Handler(1)

SpecDecode == InitServing /\ [][NextDecode]_vars


(***************************************************************************)
(* Properties                                                              *)
(***************************************************************************)
\* The handler of r is past its method check / its body read / its decode.
Checked(r) == hpc[r] \notin {"none", "conn", "method"}
Read(r) == hpc[r] \notin {"none", "conn", "method", "tracerStart", "readAll"}
Decoded(r) == Read(r) /\ req[r].readOK /\ hpc[r] # "unmarshal"

NoMetrics(r) ==
    pingHistogram[r] = <<>> /\ downloadHistogram[r] = <<>> /\ uploadHistogram[r] = <<>>

\* C1: a request whose method is not POST is answered 405 and the handler
\* returns at once: no span is started and nothing is recorded into the
\* ping, download or upload histogram.
C1_NonPostRejected ==
    \A r \in Reqs :
        (Checked(r) /\ req[r].method # "POST") =>
            /\ hpc[r] = "done"
            /\ status[r] = <<StatusMethodNotAllowed>>
            /\ span[r] = NoSpan
            /\ NoMetrics(r)

C1_Witness == \E r \in Reqs : req[r].method = "GET" /\ hpc[r] = "done"

\* The JSON type a struct field takes, stated on the JSON value alone.
WellTyped(key, v) ==
    LET fld == FieldOf(key)
    IN \/ fld = ""
       \/ v.kind = "null"
       \/ fld \in StringFields /\ v.kind = "string"
       \/ fld \in FloatFields /\ v.kind = "number" /\ v.e <= MaxFloat64Exp
       \/ fld \in IntFields /\ v.kind = "number" /\ v.f = -1 /\ v.e = -1

WellTypedBody(b) ==
    /\ b.valid
    /\ \/ b.json.kind = "null"
       \/ /\ b.json.kind = "object"
          /\ \A i \in 1..Len(b.json.members) :
                WellTyped(b.json.members[i][1], b.json.members[i][2])

\* Body b gives field fld a value.
Mentions(b, fld) ==
    \E i \in 1..Len(b.json.members) :
        FieldOf(b.json.members[i][1]) = fld /\ b.json.members[i][2].kind # "null"

\* C2 as stated: every syntactically valid JSON body sent by POST decodes
\* and is answered 200, never 400.
C2_AnyValidJsonAccepted ==
    \A r \in Reqs :
        (Decoded(r) /\ req[r].body.valid) =>
            /\ StatusBadRequest \notin {status[r][i] : i \in 1..Len(status[r])}
            /\ hpc[r] = "done" => status[r] = <<StatusOK>>

\* C2 as amended: a syntactically valid JSON body sent by POST that is null,
\* or an object whose members matching a WebhookPayload field hold null or a
\* value of the field's type, decodes without error, the fields it does not
\* mention are zero/empty, and it is answered 200; any other valid JSON (a
\* top-level value that is no object, a member of another type than its
\* field) is a decode error and is answered 400.
C2_WellTypedJsonAccepted ==
    \A r \in Reqs :
        (Decoded(r) /\ req[r].body.valid) =>
            IF WellTypedBody(req[r].body)
            THEN /\ span[r].errors = <<>>
                 /\ status[r] \in {<<>>, <<StatusOK>>}
                 /\ hpc[r] = "done" => status[r] = <<StatusOK>>
                 /\ \A fld \in Fields :
                       ~Mentions(req[r].body, fld) => payload[r][fld] = ZeroPayload[fld]
            ELSE /\ status[r] = <<StatusBadRequest>>
                 /\ span[r].errors = <<"decode">>

C2_Witness ==
    \E r \in Reqs :
        /\ hpc[r] = "done"
        /\ status[r] = <<StatusOK>>
        /\ req[r].body = Body(JObj(<< <<"Ping", JNum(25, 5, -1)>>, <<"isp", JNull>> >>))
        /\ payload[r].Ping = [m |-> 255, e |-> 0]
        /\ payload[r].ServerID = 0

\* C3: a POST whose body is read but is not JSON text has the decode error
\* recorded on its span and is answered 400; nothing is recorded into the
\* three histograms and the span gets no speedtest.result event.
C3_BadSyntaxRejected ==
    \A r \in Reqs :
        (Decoded(r) /\ ~req[r].body.valid) =>
            /\ hpc[r] \in {"spanEnd", "done"}
            /\ span[r].errors = <<"decode">>
            /\ status[r] = <<StatusBadRequest>>
            /\ NoMetrics(r)
            /\ span[r].events = <<>>

C3_Witness ==
    \E r \in Reqs :
        /\ hpc[r] = "done"
        /\ req[r].readOK
        /\ req[r].body = BadSyntax
        /\ status[r] = <<StatusBadRequest>>

\* The decimal text of the server ids of the model.
DecimalText(n) ==
    CASE n = 0 -> "0"
      [] n = 456 -> "456"
      [] n = -5 -> "-5"

Answered(r, code) == \E i \in 1..Len(status[r]) : status[r][i] = code

\* C4: a request answered 200 has recorded exactly one value into each
\* histogram, the payload's ping, download and upload, and the three
\* recordings carry the same attributes: server.id the decimal text of the
\* payload's server id, server.name its server name, isp its ISP.
C4_OneRecordingEach ==
    \A r \in Reqs :
        Answered(r, StatusOK) =>
            LET attrs == [server_id |-> DecimalText(payload[r].ServerID),
                          server_name |-> payload[r].ServerName,
                          isp |-> payload[r].ISP]
            IN /\ pingHistogram[r] = <<[value |-> payload[r].Ping, attrs |-> attrs]>>
               /\ downloadHistogram[r] =
                     <<[value |-> payload[r].Download, attrs |-> attrs]>>
               /\ uploadHistogram[r] = <<[value |-> payload[r].Upload, attrs |-> attrs]>>

C4_Witness ==
    \E r \in Reqs :
        /\ Answered(r, StatusOK)
        /\ req[r].body = Example
        /\ pingHistogram[r][1] =
              [value |-> [m |-> 255, e |-> 0],
               attrs |-> [server_id |-> "456", server_name |-> "Test Server",
                          isp |-> "Example ISP"]]

\* C5: a request answered 200 has exactly one speedtest.result event on its
\* span, whose result id, ping, download and upload are the payload's, the
\* values recorded into the three histograms.
C5_EventMatchesMetrics ==
    \A r \in Reqs :
        Answered(r, StatusOK) =>
            /\ Len(span[r].events) = 1
            /\ span[r].events[1].name = "speedtest.result"
            /\ span[r].events[1].result_id = payload[r].ResultID
            /\ span[r].events[1].ping = payload[r].Ping
            /\ span[r].events[1].download_bps = payload[r].Download
            /\ span[r].events[1].upload_bps = payload[r].Upload
            /\ Len(pingHistogram[r]) = 1
            /\ Len(downloadHistogram[r]) = 1
            /\ Len(uploadHistogram[r]) = 1
            /\ span[r].events[1].ping = pingHistogram[r][1].value
            /\ span[r].events[1].download_bps = downloadHistogram[r][1].value
            /\ span[r].events[1].upload_bps = uploadHistogram[r][1].value

C5_Witness ==
    \E r \in Reqs :
        /\ Answered(r, StatusOK)
        /\ hpc[r] = "done"
        /\ span[r].events[1].result_id = 123
        /\ span[r].events[1].download_bps = [m |-> 1000000000, e |-> 0]
        /\ span[r].events[1].upload_bps = [m |-> 500000000, e |-> 0]


\* C6: a handler that has started its span ends it exactly once, when it
\* returns and not before, on the body read failure, the decode failure and
\* the success path alike; no handler has returned with its span open.
C6_SpanEndedOnReturn ==
    \A r \in Reqs :
        /\ span[r].started <= 1
        /\ span[r].ended = IF hpc[r] = "done" THEN span[r].started ELSE 0
        /\ (hpc[r] = "done" /\ req[r].method = "POST") => span[r].started = 1

C6_Witness ==
    \E r, o \in Reqs :
        /\ hpc[r] = "done" /\ status[r] = <<StatusBadRequest>>
        /\ span[r].started = 1 /\ span[r].ended = 1
        /\ hpc[o] = "done" /\ status[o] = <<StatusInternalServerError>>
        /\ span[o].started = 1 /\ span[o].ended = 1

\* C7: a POST whose body read fails has the error recorded on its span, is
\* answered 500 and its span is ended; nothing is recorded into the three
\* histograms and no speedtest.result event is added.
C7_ReadFailure ==
    \A r \in Reqs :
        (Read(r) /\ req[r].method = "POST" /\ ~req[r].readOK) =>
            /\ hpc[r] \in {"spanEnd", "done"}
            /\ span[r].errors = <<"read">>
            /\ status[r] = <<StatusInternalServerError>>
            /\ hpc[r] = "done" => span[r].ended = 1
            /\ NoMetrics(r)
            /\ span[r].events = <<>>

C7_Witness ==
    \E r \in Reqs :
        /\ hpc[r] = "done"
        /\ req[r].method = "POST"
        /\ ~req[r].readOK
        /\ span[r].errors = <<"read">>

\* The status the precedence of C8 gives request r.
ExpectedStatus(r) ==
    IF req[r].method # "POST" THEN StatusMethodNotAllowed
    ELSE IF ~req[r].readOK THEN StatusInternalServerError
    ELSE IF Unmarshal(req[r].body).err # {} THEN StatusBadRequest
    ELSE StatusOK

\* C8: a handled request gets exactly one status, of 405, 500, 400 and 200:
\* 405 if its method is not POST, else 500 if the body read fails, else 400
\* if decoding fails, else 200; it is answered 200 exactly if it is a POST
\* whose body was read and decoded.
C8_StatusPrecedence ==
    \A r \in Reqs :
        /\ Len(status[r]) <= 1
        /\ hpc[r] = "done" => status[r] = <<ExpectedStatus(r)>>
        /\ status[r] # <<>> => status[r] = <<ExpectedStatus(r)>>
        /\ hpc[r] = "done" =>
              (Answered(r, StatusOK) <=>
                  /\ req[r].method = "POST"
                  /\ req[r].readOK
                  /\ Unmarshal(req[r].body).err = {})

C8_Witness ==
    \E r, o \in Reqs :
        /\ hpc[r] = "done" /\ status[r] = <<StatusOK>>
        /\ hpc[o] = "done" /\ status[o] = <<StatusMethodNotAllowed>>

\* A startup step has failed.
StartupFailed ==
    \/ otel.setupErr # {}
    \/ "instrument" \in err
    \/ ret \cap {"missing port", "invalid port"} # {}

\* C9: server.ListenAndServe is started only after setupOTelSDK has returned
\* without error, then the three histograms were created without error, then
\* STW_SERVER_PORT was found present and numeric, in that order; when one of
\* these steps fails the process never serves a request.
C9_StartupOrder ==
    /\ lpc # "none" =>
          /\ otel.setups = 1 /\ otel.setupErr = {}
          /\ instruments = InstrumentNames
          /\ portRaw # "" /\ AtoiOK(portRaw)
          /\ SubSeq(startup, 1, 5) =
                <<"otel", "speedtest.ping", "speedtest.download", "speedtest.upload",
                  "port">>
    /\ Len(startup) > 5 => (startup[6] = "listen" /\ srv.listener # "none")
    /\ srv.listener # "none" => lpc # "none"
    /\ StartupFailed =>
          /\ lpc = "none"
          /\ srv.listener = "none"
          /\ \A r \in Reqs : hpc[r] = "none"

C9_Witness ==
    /\ \E r \in Reqs : hpc[r] = "done"
    /\ srv.listener = "open"
    /\ startup = <<"otel", "speedtest.ping", "speedtest.download", "speedtest.upload",
                   "port", "listen">>

\* C10: when otelShutdown returns an error at shutdown, the error run()
\* returns includes it, whether server.Shutdown succeeded or failed.
C10_FlushErrorReturned ==
    (pc = "return" /\ otel.shutdowns = 1 /\ srv.inShutdown) =>
        otel.shutdownErr \subseteq ret


\* server.Shutdown has been called / has returned.
ShutdownBegun == srv.inShutdown
ShutdownReturned == srv.inShutdown /\ pc \in {"deferOtel", "ctxCan", "return"}

\* C11: after a signal to a serving process the steps of the shutdown come
\* in order: the listener stops accepting, the requests in flight are
\* drained until none is left or the 5 s are over, the telemetry provider is
\* shut down, the process exits; otelShutdown is called after
\* server.Shutdown has returned, whether it returned nil or an error.
C11_ShutdownOrder ==
    /\ pc \in {"shutdownWait", "deferOtel", "ctxCan", "return"} /\ lpc # "none"
          => ShutdownBegun
    /\ ShutdownBegun => srv.listener # "open"
    /\ (ShutdownReturned /\ "deadline exceeded" \notin ret) =>
          \A r \in Reqs : ~InFlight(r)
    /\ (ShutdownBegun /\ otel.shutdowns > 0) => ShutdownReturned
    /\ (ShutdownBegun /\ pc \in {"ctxCan", "return"}) => otel.shutdowns = 1
    /\ (ShutdownBegun /\ exit \in {"exit0", "exit1"} /\ lpc # "netListen") =>
          (pc = "return" /\ otel.shutdowns = 1)

C11_Witness ==
    /\ exit = "exit1"
    /\ ret = {"deadline exceeded"}
    /\ otel.shutdowns = 1
    /\ \E r \in Reqs : InFlight(r)

\* C12: when the telemetry bootstrap has succeeded, the provider was
\* constructed once and its release function has been called once when the
\* process ends, however it ends: signal shutdown, server.Shutdown error,
\* missing or invalid port, instrument creation failure, bind failure.
C12_ReleasedOnce ==
    (exit \in {"exit0", "exit1"} /\ otel.setups > 0 /\ otel.setupErr = {}) =>
        (otel.setups = 1 /\ otel.shutdowns = 1)


\* C13: after a termination signal the shutdown goes on whatever the
\* requests in flight do: once server.Shutdown has been called the process
\* reaches its exit (the flush returning), also when a handler never
\* finishes; the process does not wait for a request beyond the 5 s.
C13_ShutdownTerminates == (pc = "shutdownWait") ~> (exit # "running")

C13_Witness ==
    /\ exit \in {"exit0", "exit1"}
    /\ pc = "return"
    /\ "deadline exceeded" \in ret
    /\ \E r \in Reqs : hpc[r] = "readAll"


\* C14 as stated: once a signal has been delivered and server.Shutdown has
\* begun, no request is accepted and dispatched to webhookHandler any more.
C14_NoDispatchAfterShutdown ==
    [][ShutdownBegun => \A r \in Reqs : hpc'[r] = "method" => hpc[r] = "method"]_vars

\* C14 as amended: once a signal has been delivered and server.Shutdown has
\* begun, the listener accepts no connection any more, however the signal
\* interleaves with the listen goroutine (also when it comes before
\* ListenAndServe is called); the request of a connection accepted before
\* can still be dispatched to webhookHandler after the shutdown has begun.
C14_NoAcceptAfterShutdown ==
    [][ShutdownBegun =>
          /\ srv'.listener # "open"
          /\ \A r \in Reqs : hpc[r] = "none" => hpc'[r] = "none"]_vars

C14_Witness ==
    /\ ShutdownBegun
    /\ lpc = "returned"
    /\ srv.listener = "none"
    /\ \A r \in Reqs : hpc[r] = "none"


\* No signal has been delivered to the process so far.
NoSignalYet ==
    /\ Running
    /\ sig.ctx = "active"
    /\ sig.stop = <<>>
    /\ pc # "shutdown"
    /\ ~srv.inShutdown

\* C15 as stated: the first termination signal cancels the context of
\* run(), whether it is SIGINT or SIGTERM.
C15_CancelledOnFirstSignal ==
    [][\A s \in Signals : (NoSignalYet /\ Signal(s)) => sig'.ctx = "signal"]_vars

\* C15 as amended: the first termination signal cancels the context of
\* run() exactly when it is SIGINT; a first SIGTERM leaves it active (and
\* before signal.Notify of line 151 ends the process), and the context is
\* then cancelled only by the deferred ctxCan().
C15_CancelledOnFirstInterrupt ==
    [][\A s \in Signals :
          (NoSignalYet /\ Signal(s)) =>
              /\ sig'.ctx = "signal" <=> s = "SIGINT"
              /\ sig'.ctx = "active" <=> s = "SIGTERM"
              /\ (s = "SIGTERM" /\ ~sig.notify) => exit' = "killed"]_vars

C15_Witness ==
    /\ Running
    /\ sig.stop = <<"SIGTERM">>
    /\ sig.ctx = "active"
    /\ pc = "waitStop"


\* The request r is a POST whose body was read and decodes without error.
Decodable(r) ==
    /\ Read(r)
    /\ req[r].method = "POST"
    /\ req[r].readOK
    /\ Unmarshal(req[r].body).err = {}

\* The number of recordings the requests 1..n have made into a histogram.
RECURSIVE Recordings(_, _)
Recordings(h, n) == IF n = 0 THEN 0 ELSE Len(h[n]) + Recordings(h, n - 1)

RECURSIVE Events(_)
Events(n) == IF n = 0 THEN 0 ELSE Len(span[n].events) + Events(n - 1)

Quiescent == \A r \in Reqs : hpc[r] \in {"none", "done"}

\* C16: when N POST requests with decodable bodies have been handled, in
\* any interleaving and also with identical bodies, each histogram holds
\* exactly N recordings and there are N speedtest.result events; the
\* recordings and the event of a request carry the values and attributes of
\* the body that request sent, not those of another request.
C16_IndependentRecords ==
    /\ \A r \in Reqs :
          (hpc[r] = "done" /\ Decodable(r)) =>
              LET own == Unmarshal(req[r].body).payload
                  attrs == [server_id |-> DecimalText(own.ServerID),
                            server_name |-> own.ServerName,
                            isp |-> own.ISP]
              IN /\ pingHistogram[r] = <<[value |-> own.Ping, attrs |-> attrs]>>
                 /\ downloadHistogram[r] = <<[value |-> own.Download, attrs |-> attrs]>>
                 /\ uploadHistogram[r] = <<[value |-> own.Upload, attrs |-> attrs]>>
                 /\ Len(span[r].events) = 1
                 /\ span[r].events[1].result_id = own.ResultID
                 /\ span[r].events[1].server_id = own.ServerID
                 /\ span[r].events[1].server_name = own.ServerName
                 /\ span[r].events[1].isp = own.ISP
                 /\ span[r].events[1].ping = own.Ping
                 /\ span[r].events[1].download_bps = own.Download
                 /\ span[r].events[1].upload_bps = own.Upload
    /\ Quiescent =>
          LET N == Cardinality({r \in Reqs : hpc[r] = "done" /\ Decodable(r)})
          IN /\ Recordings(pingHistogram, NumReq) = N
             /\ Recordings(downloadHistogram, NumReq) = N
             /\ Recordings(uploadHistogram, NumReq) = N
             /\ Events(NumReq) = N

C16_Witness ==
    /\ \A r \in Reqs : hpc[r] = "done" /\ Decodable(r) /\ req[r].body = Example
    /\ Recordings(pingHistogram, NumReq) = NumReq
    /\ Events(NumReq) = NumReq
    /\ NumReq > 1


\* The telemetry the handlers produce: histogram recordings, span events,
\* span errors and span ends.
telemetry == <<span, pingHistogram, downloadHistogram, uploadHistogram>>

FlushStarted == otel.shutdowns > 0

\* C17 as stated: once otelShutdown has been called no handler records into
\* a histogram, adds a span event or ends a span, in every interleaving,
\* also when the 5 s of server.Shutdown expire with a handler running.
C17_TelemetryBeforeFlush ==
    [][FlushStarted => UNCHANGED telemetry]_vars

\* C17 as amended: when server.Shutdown returned without the deadline error,
\* no handler records into a histogram, adds a span event or ends a span
\* once otelShutdown has been called; when the 5 s expired with a handler
\* running, that handler can still do so after otelShutdown was called, or
\* never, when the process exits first.
C17_TelemetryBeforeFlushWhenDrained ==
    [][(FlushStarted /\ "deadline exceeded" \notin ret) => UNCHANGED telemetry]_vars

C17_Witness ==
    /\ FlushStarted
    /\ srv.inShutdown
    /\ ret = {}
    /\ \E r \in Reqs : hpc[r] = "done" /\ Answered(r, StatusOK) /\ span[r].ended = 1

====
